---- MODULE Spec2Model ----
(***************************************************************************)
(* Model of the document ingestion pipeline of legal_chatbot:              *)
(* AdvancedDocumentProcessor.process_document and the functions it calls   *)
(* (src/legal_chatbot/document_processing/processor.py).                   *)
(*                                                                         *)
(* Text is a sequence of one-character strings, so that len(), strip(),    *)
(* split() and join() are computed on characters as Python computes them.  *)
(* The external capabilities (PyPDF2, pdf2image, PIL, OpenCV, Tesseract)   *)
(* are inputs: every outcome they can produce is drawn from a small set,   *)
(* and each invocation is recorded in the call log `calls`.                *)
(***************************************************************************)
EXTENDS Integers, Sequences, FiniteSets, TLC

\* ---------------------------------------------------------------- bounds

\* Largest number of pages a PDF has (embedded pages and rasterized pages).
MaxPages == 3

\* ------------------------------------------------------ program constants

\* Config.MAX_DOCUMENT_SIZE_MB
MAX_DOCUMENT_SIZE_MB == 50

\* Config.DEFAULT_DPI
DEFAULT_DPI == 300

\* 1024 * 1024, the divisor of st_size in process_document
BytesPerMB == 1048576

\* '='*60, the width of a banner's separator line
SeparatorWidth == 60

\* the native-extraction threshold: len(full_text.strip()) > 100
NativeMinLength == 100

\* ------------------------------------------------------------------ text

\* Characters str.strip() and str.split() treat as whitespace.
Whitespace == {" ", "\t", "\n", "\r", "\f"}

IsSpace(c) == c \in Whitespace

\* c * n
Rep(c, n) == [k \in 1..n |-> c]

DigitChars == <<"0", "1", "2", "3", "4", "5", "6", "7", "8", "9">>

\* str(n) for n >= 0, as an f-string formats {page_num}
RECURSIVE Str(_)
Str(n) == IF n < 10 THEN <<DigitChars[n + 1]>>
          ELSE Str(n \div 10) \o <<DigitChars[(n % 10) + 1]>>

\* The positions of s that hold a non-whitespace character.
Solid(s) == {k \in 1..Len(s) : ~IsSpace(s[k])}

Min(S) == CHOOSE k \in S : \A j \in S : k <= j
Max(S) == CHOOSE k \in S : \A j \in S : k >= j

\* s.strip(): s from its first to its last non-whitespace character
Strip(s) == IF Solid(s) = {} THEN <<>>
            ELSE SubSeq(s, Min(Solid(s)), Max(Solid(s)))

\* len(s.split()): split() skips whitespace and starts a token at each
\* non-whitespace character that follows whitespace or starts the string.
SplitCount(s) ==
    Cardinality({k \in Solid(s) : k = 1 \/ IsSpace(s[k - 1])})

\* sep.join(parts)
RECURSIVE Join(_, _)
Join(sep, parts) ==
    IF parts = <<>> THEN <<>>
    ELSE IF Len(parts) = 1 THEN parts[1]
    ELSE parts[1] \o sep \o Join(sep, Tail(parts))

\* '='*60
Separator == Rep("=", SeparatorWidth)

NL == <<"\n">>

PAGE == <<"P", "A", "G", "E", " ">>

\* f"\n{'='*60}\nPAGE {page_num}\n{'='*60}\n\n{page_text}"
NativePart(page_num, page_text) ==
    NL \o Separator \o NL \o PAGE \o Str(page_num) \o NL
       \o Separator \o NL \o NL \o page_text

\* "[ERROR: Could not process page "
ErrorPrefix ==
    <<"[", "E", "R", "R", "O", "R", ":", " ", "C", "o", "u", "l", "d", " ",
      "n", "o", "t", " ", "p", "r", "o", "c", "e", "s", "s", " ",
      "p", "a", "g", "e", " ">>

\* f"{'='*60}\n", f"PAGE {i}\n", f"{'='*60}\n\n", text, f"\n\n":
\* the five pieces the OCR loop appends for a page that was processed
OcrPieces(i, text) ==
    << Separator \o NL,
       PAGE \o Str(i) \o NL,
       Separator \o NL \o NL,
       text,
       NL \o NL >>

\* f"\n[ERROR: Could not process page {i}]\n\n": the single piece the OCR
\* loop appends for a page whose processing raised
ErrorPiece(i) == NL \o ErrorPrefix \o Str(i) \o <<"]">> \o NL \o NL

\* ''.join(all_text)
RECURSIVE Concat(_)
Concat(parts) == IF parts = <<>> THEN <<>>
                 ELSE Head(parts) \o Concat(Tail(parts))

\* --------------------------------------------------- native extraction

\* A page loop that numbers the banners by the count of the pages kept.
RECURSIVE TextPartsRenumbered(_, _)
TextPartsRenumbered(pages, k) ==
    IF k > Len(pages) THEN <<>>
    ELSE (IF pages[k] # <<>> /\ Strip(pages[k]) # <<>>
          THEN <<NativePart(Cardinality({j \in 1..k : Strip(pages[j]) # <<>>}),
                            pages[k])>>
          ELSE <<>>)
         \o TextPartsRenumbered(pages, k + 1)

\* The text_parts list built by the page loop of
\* extract_text_from_native_pdf, for pages k..len(pages): a page
\* contributes a banner and its text when page_text is truthy and
\* page_text.strip() is non-empty.
RECURSIVE TextParts(_, _)
TextParts(pages, k) ==
    IF k > Len(pages) THEN <<>>
    ELSE (IF pages[k] # <<>> /\ Strip(pages[k]) # <<>>
          THEN <<NativePart(k, pages[k])>> ELSE <<>>)
         \o TextParts(pages, k + 1)

\* "\n\n".join(text_parts)
FullText(pages) == Join(NL \o NL, TextParts(pages, 1))

\* if full_text.strip() and len(full_text.strip()) > 100
Meaningful(full_text) ==
    Strip(full_text) # <<>> /\ Len(Strip(full_text)) > NativeMinLength

\* extract_text_from_native_pdf: (extracted_text, success_flag).
\* reader.readable is FALSE when open(), PdfReader or extract_text raises;
\* reader.pages is the embedded text of each page.
extract_text_from_native_pdf(reader) ==
    IF ~reader.readable
    THEN [text |-> <<>>, success |-> FALSE]
    ELSE IF Meaningful(FullText(reader.pages))
         THEN [text |-> FullText(reader.pages), success |-> TRUE]
         ELSE [text |-> <<>>, success |-> FALSE]

\* ------------------------------------------------ orientation detection

\* One logged invocation of a capability on page `page` (0: the single
\* image of an image file, whose page_num is None). `angle` and `expand`
\* are the arguments of image.rotate, and 0 and FALSE for the other calls.
Call(fn, page) == [fn |-> fn, page |-> page, angle |-> 0, expand |-> FALSE]

\* image.rotate(-rotation, expand=True) in correct_rotation
RotateCall(page, rotation) ==
    [fn |-> "rotate", page |-> page, angle |-> 0 - rotation, expand |-> TRUE]

\* Outcomes of pytesseract.image_to_osd followed by the parse of its
\* 'Rotate' line: "parsed" with the integer read, or an exception: the call
\* raises, the output has no 'Rotate' line (IndexError), the value is not
\* an integer (ValueError).
OsdFailures == {"raise", "no_rotate_line", "bad_int"}

\* lines[:50]
TopLines == 50

Take(s, n) == IF Len(s) <= n THEN s ELSE SubSeq(s, 1, n)

\* s with x inserted before the first element greater than x
RECURSIVE Insert(_, _)
Insert(x, s) == IF s = <<>> THEN <<x>>
                ELSE IF x <= Head(s) THEN <<x>> \o s
                ELSE <<Head(s)>> \o Insert(x, Tail(s))

RECURSIVE Sorted(_)
Sorted(s) == IF s = <<>> THEN <<>> ELSE Insert(Head(s), Sorted(Tail(s)))

\* 2 * np.median(angles) for a non-empty list of whole degrees: the middle
\* element, or the mean of the two middle elements (doubled to stay
\* integral)
Median2(angles) ==
    LET srt == Sorted(angles)
        n == Len(srt)
    IN  IF n % 2 = 1 THEN 2 * srt[(n + 1) \div 2]
        ELSE srt[n \div 2] + srt[(n \div 2) + 1]

\* A mapping whose first interval is open at 45 degrees.
NearestRotationOpen(m2) ==
    IF 2 * 45 < m2 /\ m2 < 2 * 135 THEN 90
    ELSE IF (2 * 135 <= m2 /\ m2 < 2 * 180) \/ (0 <= m2 /\ m2 < 2 * 45) THEN 0
    ELSE 270

\* The 90-degree mapping of _detect_rotation_fallback, on m2 = 2*avg_angle
NearestRotation(m2) ==
    IF 2 * 45 <= m2 /\ m2 < 2 * 135 THEN 90
    ELSE IF (2 * 135 <= m2 /\ m2 < 2 * 180) \/ (0 <= m2 /\ m2 < 2 * 45) THEN 0
    ELSE 270

\* _detect_rotation_fallback(image): image.hough.status is "raise" when
\* the OpenCV pipeline raises, "none" when HoughLines returns None, else
\* "lines" with the angles in degrees of the detected lines, strongest
\* first.
detect_rotation_fallback(image) ==
    IF image.hough.status \in {"raise", "none"} THEN 0
    ELSE NearestRotation(Median2(Take(image.hough.angles, TopLines)))

\* A detect_rotation whose fallback is not guarded: an exception of the
\* OpenCV pipeline reaches the caller.
detect_rotation_unguarded(image, page) ==
    IF image.osd.status \notin OsdFailures
    THEN [rotation |-> image.osd.rotate, raised |-> FALSE,
          calls |-> <<Call("image_to_osd", page)>>]
    ELSE [rotation |-> detect_rotation_fallback(image),
          raised |-> image.hough.status = "raise",
          calls |-> <<Call("image_to_osd", page),
                      Call("_detect_rotation_fallback", page)>>]

\* detect_rotation(image): the rotation returned, whether an exception left
\* the function (never: the primary path is inside try/except Exception and
\* the fallback catches its own exceptions), and the calls made
detect_rotation(image, page) ==
    IF image.osd.status \notin OsdFailures
    THEN [rotation |-> image.osd.rotate, raised |-> FALSE,
          calls |-> <<Call("image_to_osd", page)>>]
    ELSE [rotation |-> detect_rotation_fallback(image), raised |-> FALSE,
          calls |-> <<Call("image_to_osd", page),
                      Call("_detect_rotation_fallback", page)>>]

\* ------------------------------------------------------- per-page OCR

\* An extraction that hands the image to the engine without preprocessing.
extract_text_from_image_raw(image, page) ==
    LET det == detect_rotation(image, page)
        c0 == <<Call("extract_text_from_image", page)>> \o det.calls
        rotates == det.rotation # 0
        c1 == IF rotates THEN c0 \o <<RotateCall(page, det.rotation)>> ELSE c0
        c3 == c1 \o <<Call("image_to_string", page)>>
    IN  IF rotates /\ image.rotate = "raise"
        THEN [raised |-> TRUE, text |-> <<>>, calls |-> c1]
        ELSE IF image.ocr.raised
        THEN [raised |-> TRUE, text |-> <<>>, calls |-> c3]
        ELSE [raised |-> FALSE, text |-> image.ocr.text, calls |-> c3]

\* extract_text_from_image(image, page_num): detect the rotation, correct
\* it when it is not 0, preprocess, recognize. `raised` tells whether an
\* exception left the function; `calls` are the capabilities invoked up
\* to the return or the exception.
extract_text_from_image(image, page) ==
    LET det == detect_rotation(image, page)
        c0 == <<Call("extract_text_from_image", page)>> \o det.calls
        rotates == det.rotation # 0
        c1 == IF rotates THEN c0 \o <<RotateCall(page, det.rotation)>> ELSE c0
        c2 == c1 \o <<Call("preprocess_image", page)>>
        c3 == c2 \o <<Call("image_to_string", page)>>
    IN  IF det.raised
        THEN [raised |-> TRUE, text |-> <<>>, calls |-> c0]
        ELSE IF rotates /\ image.rotate = "raise"
        THEN [raised |-> TRUE, text |-> <<>>, calls |-> c1]
        ELSE IF image.preprocess = "raise"
        THEN [raised |-> TRUE, text |-> <<>>, calls |-> c2]
        ELSE IF image.ocr.raised
        THEN [raised |-> TRUE, text |-> <<>>, calls |-> c3]
        ELSE [raised |-> FALSE, text |-> image.ocr.text, calls |-> c3]

\* ------------------------------------------------- process_document

\* Exceptions process_document raises, by type and message prefix.
NoError == [type |-> "None", message |-> ""]
NotFound == [type |-> "FileNotFoundError", message |-> "Document not found"]
SizeLimitExceeded == [type |-> "ValueError", message |-> "Document exceeds limit"]
UnsupportedFormat == [type |-> "ValueError", message |-> "Unsupported format"]
ConversionError == [type |-> "ValueError", message |-> "PDF conversion failed"]
ImageError == [type |-> "ValueError", message |-> "Error processing image"]

\* A size test that also rejects a file exactly at the limit.
SizeExceededAtLimit(st_size) == st_size >= MAX_DOCUMENT_SIZE_MB * BytesPerMB

\* size_mb > Config.MAX_DOCUMENT_SIZE_MB with size_mb = st_size / (1024 *
\* 1024): the float division by a power of two is exact, so the test is
\* the comparison of the byte counts.
SizeExceeded(st_size) == st_size > MAX_DOCUMENT_SIZE_MB * BytesPerMB

\* path.suffix.lower(), on the suffixes the model draws
Lower(suffix) == IF suffix = ".JPG" THEN ".jpg" ELSE suffix

\* ['.png', '.jpg', '.jpeg', '.tiff', '.bmp']
ImageSuffixes == {".png", ".jpg", ".jpeg", ".tiff", ".bmp"}

\* A validation that checks existence only.
ValidateExistenceOnly(p) == IF ~p.exists THEN NotFound ELSE NoError

\* The checks of process_document before extraction, in the code's order:
\* existence, then size. The exception raised, or NoError.
Validate(p) ==
    IF ~p.exists THEN NotFound
    ELSE IF SizeExceeded(p.size) THEN SizeLimitExceeded
    ELSE NoError

\* A dispatch that hands every non-PDF file to the image extraction.
DispatchAnyImage(suffix) ==
    IF suffix = ".pdf" THEN "extract_text_from_pdf"
    ELSE "extract_text_from_image_file"

\* A dispatch that sends image files through the PDF extraction.
DispatchAllPdf(suffix) ==
    IF suffix = ".pdf" \/ suffix \in ImageSuffixes THEN "extract_text_from_pdf"
    ELSE "raised"

\* Where process_document goes for a validated file, by suffix.
Dispatch(suffix) ==
    IF suffix = ".pdf" THEN "extract_text_from_pdf"
    ELSE IF suffix \in ImageSuffixes THEN "extract_text_from_image_file"
    ELSE "raised"

\* round(size_mb, 2), in hundredths of a MB: the exact quotient rounded
\* to two decimals, ties to even.
RoundedSizeMB(st_size) ==
    LET whole == st_size \div BytesPerMB
        h == (st_size % BytesPerMB) * 100
        q == h \div BytesPerMB
        r == h % BytesPerMB
    IN  whole * 100 + (IF 2 * r > BytesPerMB THEN q + 1
                       ELSE IF 2 * r = BytesPerMB THEN q + (q % 2)
                       ELSE q)

\* A metadata value that is an int (self.dpi) or a str ('N/A').
IntVal(n) == [kind |-> "int", int |-> n, str |-> ""]
StrVal(t) == [kind |-> "str", int |-> 0, str |-> t]

\* A character count taken after stripping the text.
CharCountStripped(t) == Len(Strip(t))

\* "char_count": len(text)
CharCount(t) == Len(t)

\* "word_count": len(text.split())
WordCount(t) == SplitCount(t)

\* The metadata dict of process_document (filename left out: it is the
\* path's name, which no step reads).
Metadata(p, t, self_dpi) ==
    [file_type |-> Lower(p.suffix),
     size_mb |-> RoundedSizeMB(p.size),
     char_count |-> CharCount(t),
     word_count |-> WordCount(t),
     dpi_used |-> IF Lower(p.suffix) = ".pdf" THEN IntVal(self_dpi)
                  ELSE StrVal("N/A")]

NoMetadata ==
    [file_type |-> "", size_mb |-> 0, char_count |-> 0, word_count |-> 0,
     dpi_used |-> StrVal("")]

\* ---------------------------------------------------------------- inputs

SeqsUpTo(S, n) == UNION {[1..k -> S] : k \in 0..n}

\* 101 non-whitespace characters in two words
LongText == Rep("a", 50) \o <<" ">> \o Rep("b", 51)

\* Embedded text of a PDF page: none, whitespace only, a stray character,
\* a few words, a real text layer.
NativeTexts ==
    { <<>>,
      <<" ", "\n">>,
      <<"x">>,
      <<"a", "b", " ", "c", "\n">>,
      LongText }

Readers ==
    {[readable |-> FALSE, pages |-> <<>>]}
    \cup {[readable |-> TRUE, pages |-> ps] : ps \in SeqsUpTo(NativeTexts, MaxPages)}

NoReader == [readable |-> FALSE, pages |-> <<>>]

Parsed(r) == [status |-> "parsed", rotate |-> r]
OsdFailed(why) == [status |-> why, rotate |-> 0]
Lines(angles) == [status |-> "lines", angles |-> angles]
NoLines(status) == [status |-> status, angles |-> <<>>]
Recognized(t) == [raised |-> FALSE, text |-> t]
EngineError == [raised |-> TRUE, text |-> <<>>]

\* Page images, by how the capabilities behave on them: an upright page, a
\* rotated page, a page whose rotation correction raises, a page whose
\* preprocessing raises, a page the engine fails on.
UprightPage ==
    [osd |-> Parsed(0), hough |-> NoLines("none"), rotate |-> "ok",
     preprocess |-> "ok", ocr |-> Recognized(<<"a", "b", " ", "c", "\n">>)]

RotatedPage ==
    [osd |-> Parsed(90), hough |-> NoLines("none"), rotate |-> "ok",
     preprocess |-> "ok", ocr |-> Recognized(<<"x">>)]

RotationFailsPage ==
    [osd |-> OsdFailed("raise"), hough |-> Lines(<<92>>), rotate |-> "raise",
     preprocess |-> "ok", ocr |-> Recognized(<<"y">>)]

PreprocessFailsPage ==
    [osd |-> OsdFailed("no_rotate_line"), hough |-> NoLines("none"),
     rotate |-> "ok", preprocess |-> "raise", ocr |-> Recognized(<<"z">>)]

EngineFailsPage ==
    [osd |-> OsdFailed("bad_int"), hough |-> NoLines("raise"), rotate |-> "ok",
     preprocess |-> "ok", ocr |-> EngineError]

PageImages ==
    {UprightPage, RotatedPage, RotationFailsPage, PreprocessFailsPage,
     EngineFailsPage}

\* A blank image: nothing to orient, nothing recognized.
BlankImage ==
    [osd |-> OsdFailed("raise"), hough |-> NoLines("none"), rotate |-> "ok",
     preprocess |-> "ok", ocr |-> Recognized(<<>>)]

\* Page images as a processor sees them whose Tesseract cannot be reached:
\* image_to_osd and image_to_string raise on every image.
EngineDownImages ==
    { [osd |-> OsdFailed("raise"), hough |-> NoLines("none"), rotate |-> "ok",
       preprocess |-> "ok", ocr |-> EngineError],
      [osd |-> OsdFailed("raise"), hough |-> Lines(<<92>>), rotate |-> "ok",
       preprocess |-> "ok", ocr |-> EngineError] }

\* The page images drawn, by whether Tesseract can be reached.
PagePool(engine_up) == IF engine_up THEN PageImages ELSE EngineDownImages

\* What pdf2image yields for a file: an exception, or the page images.
RastersFor(engine_up) ==
    {[ok |-> FALSE, images |-> <<>>]}
    \cup {[ok |-> TRUE, images |-> im] :
             im \in SeqsUpTo(PagePool(engine_up), MaxPages)}

Rasters == RastersFor(TRUE)

RastersDown == RastersFor(FALSE)

\* What PIL.Image.open yields for an image file: an exception, or the image.
DecodedFor(engine_up) ==
    {[ok |-> FALSE, image |-> BlankImage]}
    \cup {[ok |-> TRUE, image |-> im] :
             im \in IF engine_up THEN PageImages \cup {BlankImage}
                    ELSE EngineDownImages}

Decoded == DecodedFor(TRUE)

DecodedDown == DecodedFor(FALSE)

Limit == MAX_DOCUMENT_SIZE_MB * BytesPerMB

\* File sizes in bytes, around the limit.
Sizes == {Limit - 1, Limit, Limit + 1, 2 * Limit}

Suffixes == {".pdf", ".png", ".JPG", ".jpeg", ".tiff", ".bmp", ".docx", ""}

\* The files process_document is called on.
Paths ==
    {[exists |-> FALSE, size |-> 0, suffix |-> sf] : sf \in Suffixes}
    \cup {[exists |-> TRUE, size |-> sz, suffix |-> sf] : sz \in Sizes, sf \in Suffixes}

NoPath == [exists |-> FALSE, size |-> 0, suffix |-> ""]

NoImage == [ok |-> FALSE, image |-> BlankImage]

\* Largest number of lines HoughLines reports in the enumerated inputs
\* (one longer list, ManyLines, is enumerated besides).
MaxLines == 2

\* Line angles np.degrees(theta) in whole degrees; HoughLines reports theta
\* in [0, pi) in steps of one degree.
Angles == {0, 44, 45, 92, 134, 135, 179}

\* 51 lines whose median changes when only the first 50 are kept: the
\* first 50 have median 30, all 51 have median 50.
ManyLines == Rep(10, 25) \o Rep(50, 25) \o <<50>>

HoughOutcomes ==
    {NoLines("raise"), NoLines("none"), Lines(ManyLines)}
    \cup {Lines(a) : a \in SeqsUpTo(Angles, MaxLines) \ {<<>>}}

\* Integers the 'Rotate' line of the OSD output is read as: the four
\* Tesseract reports for an upright, a turned and an upside-down page, and
\* one that the code accepts as well, since int() parses any integer.
OsdRotations == {0, 90, 180, 270, 45}

OsdOutcomes ==
    {OsdFailed(why) : why \in OsdFailures} \cup {Parsed(r) : r \in OsdRotations}

\* The images detect_rotation is applied to.
RotationInputs ==
    {[osd |-> o, hough |-> h, rotate |-> "ok", preprocess |-> "ok",
      ocr |-> Recognized(<<>>)] : o \in OsdOutcomes, h \in HoughOutcomes}

\* A document: a file and what each capability yields for it.
Doc(p, reader, raster, decoded) ==
    [path |-> p, reader |-> reader, raster |-> raster, decoded |-> decoded]

NoRaster == [ok |-> FALSE, images |-> <<>>]

NoDoc == Doc(NoPath, NoReader, NoRaster, NoImage)

File(sz, sf) == [exists |-> TRUE, size |-> sz, suffix |-> sf]

PdfDoc(sz, pages, raster) ==
    Doc(File(sz, ".pdf"), [readable |-> TRUE, pages |-> pages], raster, NoImage)

Raster(im) == [ok |-> TRUE, images |-> im]

\* The documents processed repeatedly: missing, oversized and unsupported
\* files, PDFs on the native path, PDFs on the OCR path with and without
\* failing pages, a PDF that cannot be rasterized, image files that are
\* recognized, fail on their page, or cannot be decoded.
Documents ==
    { Doc([exists |-> FALSE, size |-> 0, suffix |-> ".pdf"],
          NoReader, NoRaster, NoImage),
      Doc(File(Limit + 1, ".png"), NoReader, NoRaster, NoImage),
      Doc(File(Limit, ".docx"), NoReader, NoRaster, NoImage),
      PdfDoc(Limit, <<LongText, <<"x">> >>, NoRaster),
      PdfDoc(Limit - 1, << <<>>, <<"a", "b", " ", "c", "\n">> >>,
             Raster(<<UprightPage>>)),
      PdfDoc(Limit - 1, << <<" ", "\n">> >>,
             Raster(<<UprightPage, RotationFailsPage, RotatedPage>>)),
      PdfDoc(Limit, <<>>, Raster(<<EngineFailsPage, RotatedPage>>)),
      PdfDoc(Limit, << <<>> >>, Raster(<<>>)),
      Doc(File(Limit, ".pdf"), NoReader, NoRaster, NoImage),
      Doc(File(Limit, ".pdf"), NoReader, Raster(<<PreprocessFailsPage>>), NoImage),
      Doc(File(Limit - 1, ".png"), NoReader, NoRaster,
          [ok |-> TRUE, image |-> UprightPage]),
      Doc(File(Limit, ".JPG"), NoReader, NoRaster,
          [ok |-> TRUE, image |-> EngineFailsPage]),
      Doc(File(Limit, ".tiff"), NoReader, NoRaster, NoImage) }

\* ----------------------------------------------------------------- state

VARIABLES
    pc,          \* where the current process_document call stands
    dpi,         \* self.dpi
    path,        \* the file of the current call
    pdf_reader,  \* what PyPDF2 read, while extract_text_from_pdf holds it
    native,      \* (text, success) returned by extract_text_from_native_pdf
    images,      \* the page images convert_from_path returned
    image,       \* what Image.open yielded for an image file
    i,           \* the page index of the OCR loop
    all_text,    \* the pieces appended by the OCR loop
    text,        \* the extracted text
    metadata,    \* the metadata dict
    error,       \* the exception process_document raised
    calls,       \* the capabilities invoked during the current call
    conversion,  \* how convert_from_path ended in the current call
    tesseract,   \* whether the Tesseract engine can be reached
    det_image,   \* the image detect_rotation was applied to
    det_result,  \* what detect_rotation returned for det_image
    target,      \* the document a caller processes repeatedly
    current,     \* the document of the caller's current call
    chosen,      \* whether the caller has a call under way
    first,       \* the outcome of the caller's first call on target
    between,     \* whether another document was processed since then
    document_content,   \* LegalChatbot.state["document_content"]
    document_metadata,  \* LegalChatbot.state["document_metadata"]
    last_call,   \* how the chatbot's last document call ended
    before,      \* the two document fields when the last load_document began
    job,         \* the document of the last load_document that succeeded
    op,          \* the call of the front end that is under way
    doc_loaded,  \* st.session_state.doc_loaded
    doc_info,    \* st.session_state.doc_info
    upload_success,  \* the success flag app.process_document returned last
    query_type,  \* LegalChatbot.state["query_type"]
    routing_decision,  \* LegalChatbot.state["routing_decision"]
    node,        \* the node of the graph a query stands at
    trace        \* the nodes the current query has run

\* The document fields of the chatbot, with what the model remembers
\* of its calls.
chat == <<document_content, document_metadata, last_call, before, job>>

\* The Streamlit session.
ui == <<op, doc_loaded, doc_info, upload_success>>

\* A run of the workflow graph.
run == <<query_type, routing_decision, node, trace>>

session == <<chat, ui, run>>

\* What the callers of the processor hold.
aux == <<tesseract, det_image, det_result, target, current, chosen, first,
         between, session>>

vars == <<pc, dpi, path, pdf_reader, native, images, image, i, all_text,
          text, metadata, error, calls, conversion, aux>>

NoNative == [text |-> <<>>, success |-> FALSE]

NoDetection == [done |-> FALSE, rotation |-> 0, raised |-> FALSE, calls |-> <<>>]

NoOutcome ==
    [pc |-> "idle", text |-> <<>>, metadata |-> NoMetadata, error |-> NoError]

NoFirst == [done |-> FALSE, outcome |-> NoOutcome]

\* No caller has done anything yet.
NoCaller ==
    /\ det_image = BlankImage
    /\ det_result = NoDetection
    /\ current = NoDoc
    /\ chosen = FALSE
    /\ first = NoFirst
    /\ between = FALSE

\* Optional[str] and Optional[dict]: None, or a value.
NoContent == [some |-> FALSE, text |-> <<>>]
Content(t) == [some |-> TRUE, text |-> t]
NoInfo == [some |-> FALSE, value |-> NoMetadata]
Info(m) == [some |-> TRUE, value |-> m]

\* LegalChatbot.__init__ and init_session have run; nothing was loaded.
NoSession ==
    /\ document_content = NoContent
    /\ document_metadata = NoInfo
    /\ last_call = "none"
    /\ before = [content |-> NoContent, metadata |-> NoInfo]
    /\ job = NoDoc
    /\ op = "idle"
    /\ doc_loaded = FALSE
    /\ doc_info = NoInfo
    /\ upload_success = "none"

\* No query has been made: query_type and routing_decision are None.
NoQuery ==
    /\ query_type = "None"
    /\ routing_decision = "None"
    /\ node = "idle"
    /\ trace = <<>>

\* The fields of a processor with the default dpi and no call under way,
\* standing at `at`.
Fresh(at) ==
    /\ pc = at
    /\ dpi = DEFAULT_DPI
    /\ path = NoPath
    /\ pdf_reader = NoReader
    /\ native = NoNative
    /\ images = <<>>
    /\ image = NoImage
    /\ i = 0
    /\ all_text = <<>>
    /\ text = <<>>
    /\ metadata = NoMetadata
    /\ error = NoError
    /\ calls = <<>>
    /\ conversion = "not_run"

\* AdvancedDocumentProcessor.__init__ has returned; no call yet. Tesseract
\* may or may not be reachable.
Init ==
    /\ Fresh("idle")
    /\ tesseract \in BOOLEAN
    /\ target = NoDoc
    /\ NoCaller
    /\ NoSession
    /\ NoQuery

\* The stat calls of the validation: path.exists(), and path.stat() when
\* the file exists.
StatCalls(p) ==
    IF p.exists THEN <<Call("exists", 0), Call("stat", 0)>>
    ELSE <<Call("exists", 0)>>

\* process_document, from the call to the dispatch on the suffix: raise
\* for a missing, an oversized or an unsupported file, else enter the
\* extraction for the file's type.
ProcessDocument ==
    /\ pc = "idle"
    /\ \E p \in Paths :
        /\ path' = p
        /\ calls' = StatCalls(p)
        /\ IF Validate(p) # NoError
           THEN pc' = "raised" /\ error' = Validate(p)
           ELSE /\ pc' = Dispatch(Lower(p.suffix))
                /\ error' = IF Dispatch(Lower(p.suffix)) = "raised"
                            THEN UnsupportedFormat ELSE NoError
    /\ UNCHANGED <<dpi, pdf_reader, native, images, image, i, all_text, text, metadata>>
    /\ UNCHANGED <<conversion, aux>>

\* A native attempt whose exception leaves process_document.
NativeAttemptUnguarded ==
    /\ pc = "extract_text_from_pdf"
    /\ \E reader \in Readers :
        /\ pdf_reader' = reader
        /\ native' = extract_text_from_native_pdf(reader)
        /\ pc' = IF reader.readable THEN "native_done" ELSE "raised"
        /\ error' = IF reader.readable THEN error
                    ELSE [type |-> "PdfReadError", message |-> "native"]
    /\ calls' = Append(calls, Call("extract_text_from_native_pdf", 0))
    /\ UNCHANGED <<dpi, path, images, image, i, all_text, text, metadata>>
    /\ UNCHANGED <<conversion, aux>>

\* extract_text_from_pdf, first statement: the native attempt.
NativeAttempt ==
    /\ pc = "extract_text_from_pdf"
    /\ \E reader \in Readers :
        /\ pdf_reader' = reader
        /\ native' = extract_text_from_native_pdf(reader)
    /\ calls' = Append(calls, Call("extract_text_from_native_pdf", 0))
    /\ pc' = "native_done"
    /\ UNCHANGED <<dpi, path, images, image, i, all_text, text, metadata, error>>
    /\ UNCHANGED <<conversion, aux>>

\* A native result that sends every PDF to the OCR fallback.
SufficientNever(result) == FALSE

\* `if success:` in extract_text_from_pdf
Sufficient(result) == result.success

\* if success: return text
Accepted ==
    /\ pc = "native_done"
    /\ Sufficient(native)
    /\ text' = native.text
    /\ pdf_reader' = NoReader
    /\ pc' = "metadata"
    /\ UNCHANGED <<dpi, path, native, images, image, i, all_text, metadata, error, calls>>
    /\ UNCHANGED <<conversion, aux>>

\* A fallback that swallows the conversion error and goes on with no
\* pages.
OcrFallbackSwallowing ==
    /\ pc = "native_done"
    /\ ~Sufficient(native)
    /\ calls' = Append(calls, Call("convert_from_path", 0))
    /\ \E raster \in (IF tesseract THEN Rasters ELSE RastersDown) :
        /\ images' = raster.images
        /\ conversion' = IF raster.ok THEN "ok" ELSE "raised"
    /\ i' = 1
    /\ all_text' = <<>>
    /\ pc' = "page_loop"
    /\ pdf_reader' = NoReader
    /\ UNCHANGED <<dpi, path, native, image, text, metadata, error>>
    /\ UNCHANGED aux

\* extract_text_from_pdf falls back to extract_text_from_scanned_pdf, which
\* rasterizes the file: a conversion failure raises ValueError, else the
\* page loop starts.
OcrFallback ==
    /\ pc = "native_done"
    /\ ~Sufficient(native)
    /\ pdf_reader' = NoReader
    /\ calls' = Append(calls, Call("convert_from_path", 0))
    /\ \E raster \in (IF tesseract THEN Rasters ELSE RastersDown) :
        IF raster.ok
        THEN /\ images' = raster.images
             /\ i' = 1
             /\ all_text' = <<>>
             /\ pc' = "page_loop"
             /\ error' = error
             /\ conversion' = "ok"
        ELSE /\ pc' = "raised"
             /\ error' = ConversionError
             /\ conversion' = "raised"
             /\ UNCHANGED <<images, i, all_text>>
    /\ UNCHANGED <<dpi, path, native, image, text, metadata>>
    /\ UNCHANGED aux

\* An iteration that leaves no trace of a page whose processing raised.
PageAppendDropping(k, res) ==
    IF res.raised THEN <<>> ELSE OcrPieces(k, res.text)

\* What one iteration of the OCR loop appends to all_text for the outcome
\* `res` of extract_text_from_image on page k.
PageAppend(k, res) ==
    IF res.raised THEN <<ErrorPiece(k)>> ELSE OcrPieces(k, res.text)

\* The loop without its try/except: an exception of a page's processing
\* leaves extract_text_from_scanned_pdf and process_document.
PerPageOcrUnguarded ==
    /\ pc = "page_loop"
    /\ i <= Len(images)
    /\ LET res == extract_text_from_image(images[i], i)
       IN  /\ calls' = calls \o res.calls
           /\ IF res.raised
              THEN /\ pc' = "raised"
                   /\ error' = [type |-> "Exception", message |-> "page"]
                   /\ UNCHANGED <<all_text, i>>
              ELSE /\ all_text' = all_text \o OcrPieces(i, res.text)
                   /\ i' = i + 1
                   /\ UNCHANGED <<pc, error>>
    /\ UNCHANGED <<dpi, path, pdf_reader, native, images, image, text, metadata>>
    /\ UNCHANGED <<conversion, aux>>

\* A loop that processes a page again when its processing raised.
NextPageRetrying(k, res) == IF res.raised THEN k ELSE k + 1

\* enumerate(images, 1): the index after page k, whatever its outcome
NextPage(k, res) == k + 1

\* One iteration of the loop `for i, image in enumerate(images, 1)`.
PerPageOcr ==
    /\ pc = "page_loop"
    /\ i <= Len(images)
    /\ LET res == extract_text_from_image(images[i], i)
       IN  /\ all_text' = all_text \o PageAppend(i, res)
           /\ calls' = calls \o res.calls
           /\ i' = NextPage(i, res)
    /\ UNCHANGED <<pc, dpi, path, pdf_reader, native, images, image, text, metadata, error>>
    /\ UNCHANGED <<conversion, aux>>

\* The loop is exhausted: full_text = ''.join(all_text); return full_text
Assembled ==
    /\ pc = "page_loop"
    /\ i > Len(images)
    /\ text' = Concat(all_text)
    /\ pc' = "metadata"
    /\ UNCHANGED <<dpi, path, pdf_reader, native, images, image, i, all_text, metadata,
                   error, calls>>
    /\ UNCHANGED <<conversion, aux>>

\* An image extraction that records a page failure as an inline marker
\* and returns normally.
ImageFileIsolating ==
    /\ pc = "extract_text_from_image_file"
    /\ \E dec \in (IF tesseract THEN Decoded ELSE DecodedDown) :
        LET res == extract_text_from_image(dec.image, 0)
        IN  /\ image' = dec
            /\ IF ~dec.ok
               THEN /\ calls' = Append(calls, Call("Image.open", 0))
                    /\ pc' = "raised"
                    /\ error' = ImageError
                    /\ text' = text
               ELSE /\ calls' = Append(calls, Call("Image.open", 0)) \o res.calls
                    /\ pc' = "metadata"
                    /\ error' = error
                    /\ text' = IF res.raised THEN ErrorPiece(1) ELSE res.text
    /\ UNCHANGED <<dpi, path, pdf_reader, native, images, i, all_text, metadata>>
    /\ UNCHANGED <<conversion, aux>>

\* extract_text_from_image_file: any exception of Image.open or of
\* extract_text_from_image is re-raised as ValueError.
ImageFile ==
    /\ pc = "extract_text_from_image_file"
    /\ \E dec \in (IF tesseract THEN Decoded ELSE DecodedDown) :
        LET res == extract_text_from_image(dec.image, 0)
        IN  /\ image' = dec
            /\ IF ~dec.ok
               THEN /\ calls' = Append(calls, Call("Image.open", 0))
                    /\ pc' = "raised"
                    /\ error' = ImageError
                    /\ text' = text
               ELSE /\ calls' = Append(calls, Call("Image.open", 0)) \o res.calls
                    /\ IF res.raised
                       THEN pc' = "raised" /\ error' = ImageError /\ text' = text
                       ELSE pc' = "metadata" /\ error' = error /\ text' = res.text
    /\ UNCHANGED <<dpi, path, pdf_reader, native, images, i, all_text, metadata>>
    /\ UNCHANGED <<conversion, aux>>

\* The metadata dict is built from the extracted text; return text, metadata
BuildMetadata ==
    /\ pc = "metadata"
    /\ metadata' = Metadata(path, text, dpi)
    /\ pc' = "returned"
    /\ UNCHANGED <<dpi, path, pdf_reader, native, images, image, i, all_text, text,
                   error, calls>>
    /\ UNCHANGED <<conversion, aux>>

\* A processor on which a finished call leaves a lowered self.dpi behind.
FinishLoweringDpi ==
    /\ pc \in {"returned", "raised"}
    /\ pc' = "idle"
    /\ path' = NoPath
    /\ pdf_reader' = NoReader
    /\ native' = NoNative
    /\ images' = <<>>
    /\ image' = NoImage
    /\ i' = 0
    /\ all_text' = <<>>
    /\ text' = <<>>
    /\ metadata' = NoMetadata
    /\ error' = NoError
    /\ calls' = <<>>
    /\ conversion' = "not_run"
    /\ dpi' = dpi \div 2
    /\ UNCHANGED aux

\* The caller has the result or the exception; the processor is idle again
\* and keeps nothing of the call but self.dpi.
Finish ==
    /\ pc \in {"returned", "raised"}
    /\ pc' = "idle"
    /\ path' = NoPath
    /\ pdf_reader' = NoReader
    /\ native' = NoNative
    /\ images' = <<>>
    /\ image' = NoImage
    /\ i' = 0
    /\ all_text' = <<>>
    /\ text' = <<>>
    /\ metadata' = NoMetadata
    /\ error' = NoError
    /\ calls' = <<>>
    /\ conversion' = "not_run"
    /\ UNCHANGED dpi
    /\ UNCHANGED aux

Next ==
    \/ ProcessDocument
    \/ NativeAttempt
    \/ Accepted
    \/ OcrFallback
    \/ PerPageOcr
    \/ Assembled
    \/ ImageFile
    \/ BuildMetadata
    \/ Finish

Spec == Init /\ [][Next]_vars

\* The steps of the OCR loop and of the return are taken: the call is
\* synchronous.
FairSpec ==
    /\ Spec
    /\ WF_vars(PerPageOcr)
    /\ WF_vars(Assembled)
    /\ WF_vars(BuildMetadata)

\* ---------------------------------------------------------- construction

\* An __init__ that lets the failed version probe escape.
ConstructOutcomeStrict(available) ==
    IF available THEN "idle" ELSE "construct_raised"

\* Where __init__ ends, by whether get_tesseract_version() succeeds: the
\* probe sits in try/except Exception, which logs a warning.
ConstructOutcome(available) == "idle"

\* AdvancedDocumentProcessor(dpi=300)
Construct ==
    /\ pc = "new"
    /\ pc' = ConstructOutcome(tesseract)
    /\ UNCHANGED <<dpi, path, pdf_reader, native, images, image, i,
                   all_text, text, metadata, error, calls, conversion>>
    /\ UNCHANGED aux

InitNew ==
    /\ Fresh("new")
    /\ tesseract \in BOOLEAN
    /\ target = NoDoc
    /\ NoCaller
    /\ NoSession
    /\ NoQuery

ConstructSpec == InitNew /\ [][Construct \/ Next]_vars

\* ------------------------------------------------ detect_rotation alone

\* A caller applies detect_rotation to an image, once.
DetectRotation ==
    /\ pc = "idle"
    /\ ~det_result.done
    /\ \E im \in RotationInputs :
        /\ det_image' = im
        /\ det_result' = [done |-> TRUE,
                          rotation |-> detect_rotation(im, 0).rotation,
                          raised |-> detect_rotation(im, 0).raised,
                          calls |-> detect_rotation(im, 0).calls]
    /\ UNCHANGED <<pc, dpi, path, pdf_reader, native, images, image, i,
                   all_text, text, metadata, error, calls, conversion>>
    /\ UNCHANGED <<tesseract, target, current, chosen, first, between>>
    /\ UNCHANGED session

OrientationInit == Init /\ tesseract

OrientationSpec == OrientationInit /\ [][DetectRotation]_vars

\* --------------------------------------- repeated calls on one processor

\* What a call of process_document hands to its caller: the text and the
\* metadata, or the exception.
Outcome == [pc |-> pc, text |-> text, metadata |-> metadata, error |-> error]

\* A caller picks the document of its next call.
Choose ==
    /\ pc = "idle"
    /\ ~chosen
    /\ \E doc \in Documents : current' = doc
    /\ chosen' = TRUE
    /\ UNCHANGED <<pc, dpi, path, pdf_reader, native, images, image, i,
                   all_text, text, metadata, error, calls, conversion>>
    /\ UNCHANGED <<tesseract, det_image, det_result, target, first, between>>
    /\ UNCHANGED session

\* process_document(current): the capabilities answer for the current
\* document as they always do for it.
CallOnDocument ==
    /\ chosen
    /\ path' = current.path
    /\ ProcessDocument

NativeOnDocument ==
    /\ pdf_reader' = current.reader
    /\ NativeAttempt

FallbackOnDocument ==
    /\ IF current.raster.ok
       THEN pc' = "page_loop" /\ images' = current.raster.images
       ELSE pc' = "raised"
    /\ OcrFallback

ImageOnDocument ==
    /\ image' = current.decoded
    /\ ImageFile

\* The caller receives the outcome; it keeps the outcome of its first call
\* on target, and notes a call on another document made after that.
Receive ==
    /\ chosen
    /\ pc \in {"returned", "raised"}
    /\ chosen' = FALSE
    /\ first' = IF current = target /\ ~first.done
                THEN [done |-> TRUE, outcome |-> Outcome]
                ELSE first
    /\ between' = (between \/ (first.done /\ current # target))
    /\ UNCHANGED <<pc, dpi, path, pdf_reader, native, images, image, i,
                   all_text, text, metadata, error, calls, conversion>>
    /\ UNCHANGED <<tesseract, det_image, det_result, target, current>>
    /\ UNCHANGED session

Release ==
    /\ ~chosen
    /\ Finish

RepeatInit ==
    /\ Fresh("idle")
    /\ tesseract = TRUE
    /\ target \in Documents
    /\ NoCaller
    /\ NoSession
    /\ NoQuery

RepeatNext ==
    \/ Choose
    \/ CallOnDocument
    \/ NativeOnDocument
    \/ Accepted
    \/ FallbackOnDocument
    \/ PerPageOcr
    \/ Assembled
    \/ ImageOnDocument
    \/ BuildMetadata
    \/ Receive
    \/ Release

RepeatSpec == RepeatInit /\ [][RepeatNext]_vars

\* ------------------------------------------------------- LegalChatbot

\* The state of the chatbot's AdvancedDocumentProcessor.
processor == <<pc, dpi, path, pdf_reader, native, images, image, i, all_text,
               text, metadata, error, calls, conversion>>

\* load_document(file_path) is called and calls process_document; the model
\* notes the two document fields as they are at the call.
BeginLoad(by) ==
    /\ pc = "idle"
    /\ ~chosen
    /\ op = "idle"
    /\ chosen' = TRUE
    /\ op' = by
    /\ before' = [content |-> document_content, metadata |-> document_metadata]
    /\ UNCHANGED processor
    /\ UNCHANGED <<tesseract, det_image, det_result, target, first, between>>
    /\ UNCHANGED <<document_content, document_metadata, last_call, job>>
    /\ UNCHANGED <<doc_loaded, doc_info, upload_success>>
    /\ UNCHANGED run

\* The CLI command `load <filepath>`.
LoadDocument ==
    /\ \E doc \in Documents : current' = doc
    /\ BeginLoad("load_document")

\* Where the front end stands when load_document has returned.
AfterLoad == IF op = "upload" THEN "uploaded" ELSE "idle"

\* A load_document whose except clause drops the loaded document.
LoadFailsClearing ==
    /\ chosen
    /\ pc = "raised"
    /\ document_content' = NoContent
    /\ document_metadata' = NoInfo
    /\ last_call' = "load_error"
    /\ chosen' = FALSE
    /\ op' = AfterLoad
    /\ UNCHANGED processor
    /\ UNCHANGED <<tesseract, det_image, det_result, target, current, first, between>>
    /\ UNCHANGED <<before, job>>
    /\ UNCHANGED <<doc_loaded, doc_info, upload_success>>
    /\ UNCHANGED run

\* load_document, except Exception: the error message is returned; the
\* state dict is not touched.
LoadFails ==
    /\ chosen
    /\ pc = "raised"
    /\ last_call' = "load_error"
    /\ chosen' = FALSE
    /\ op' = AfterLoad
    /\ UNCHANGED processor
    /\ UNCHANGED <<tesseract, det_image, det_result, target, current, first, between>>
    /\ UNCHANGED <<document_content, document_metadata, before, job>>
    /\ UNCHANGED <<doc_loaded, doc_info, upload_success>>
    /\ UNCHANGED run

\* load_document after process_document returned (text, metadata): both
\* fields are assigned, then the confirmation message is returned.
LoadSucceeds ==
    /\ chosen
    /\ pc = "returned"
    /\ op \in {"load_document", "upload"}
    /\ document_content' = Content(text)
    /\ document_metadata' = Info(metadata)
    /\ last_call' = "load_ok"
    /\ job' = current
    /\ chosen' = FALSE
    /\ op' = AfterLoad
    /\ UNCHANGED processor
    /\ UNCHANGED <<tesseract, det_image, det_result, target, current, first, between>>
    /\ UNCHANGED before
    /\ UNCHANGED <<doc_loaded, doc_info, upload_success>>
    /\ UNCHANGED run

\* The assignments of clear_document.
Cleared ==
    /\ document_content' = NoContent
    /\ document_metadata' = NoInfo
    /\ last_call' = "clear"
    /\ UNCHANGED <<before, job>>

\* The CLI command `clear`.
ClearDocument ==
    /\ pc = "idle"
    /\ ~chosen
    /\ op = "idle"
    /\ Cleared
    /\ UNCHANGED processor
    /\ UNCHANGED <<tesseract, det_image, det_result, target, current, chosen,
                   first, between>>
    /\ UNCHANGED ui
    /\ UNCHANGED run

ChatInit == Init /\ tesseract

ChatNext ==
    \/ LoadDocument
    \/ CallOnDocument
    \/ NativeOnDocument
    \/ Accepted
    \/ FallbackOnDocument
    \/ PerPageOcr
    \/ Assembled
    \/ ImageOnDocument
    \/ BuildMetadata
    \/ LoadSucceeds
    \/ LoadFails
    \/ Release
    \/ ClearDocument

ChatSpec == ChatInit /\ [][ChatNext]_vars

\* ------------------------------------------------------ Streamlit app

\* type=['pdf', 'png', 'jpg', 'jpeg', 'tiff', 'bmp'] of st.file_uploader
UploadTypes == {".pdf"} \cup ImageSuffixes

\* The files a user can hand to the uploader.
Uploads ==
    {doc \in Documents : doc.path.exists /\ Lower(doc.path.suffix) \in UploadTypes}

\* app.process_document(file), first check: a file over the limit is
\* refused with (False, message).
UploadRefused ==
    /\ pc = "idle"
    /\ ~chosen
    /\ op = "idle"
    /\ \E doc \in Uploads : doc.path.size > MAX_DOCUMENT_SIZE_MB * BytesPerMB
    /\ upload_success' = "false"
    /\ UNCHANGED processor
    /\ UNCHANGED <<tesseract, det_image, det_result, target, current, chosen,
                   first, between>>
    /\ UNCHANGED chat
    /\ UNCHANGED <<op, doc_loaded, doc_info>>
    /\ UNCHANGED run

\* app.process_document(file): the file is written to a temporary file
\* with the suffix of the upload and chatbot.load_document is called on it.
Upload ==
    /\ \E doc \in Uploads :
        /\ ~(doc.path.size > MAX_DOCUMENT_SIZE_MB * BytesPerMB)
        /\ current' = doc
    /\ BeginLoad("upload")

\* app.process_document after load_document returned its message:
\* doc_loaded and doc_info are set and (True, result) is returned.
UploadDone ==
    /\ op = "uploaded"
    /\ op' = "idle"
    /\ doc_loaded' = TRUE
    /\ doc_info' = document_metadata
    /\ upload_success' = "true"
    /\ UNCHANGED processor
    /\ UNCHANGED <<tesseract, det_image, det_result, target, current, chosen,
                   first, between>>
    /\ UNCHANGED chat
    /\ UNCHANGED run

\* The "Clear Document" button, rendered when doc_loaded and doc_info.
ClearButton ==
    /\ pc = "idle"
    /\ ~chosen
    /\ op = "idle"
    /\ doc_loaded
    /\ doc_info.some
    /\ Cleared
    /\ doc_loaded' = FALSE
    /\ doc_info' = NoInfo
    /\ UNCHANGED processor
    /\ UNCHANGED <<tesseract, det_image, det_result, target, current, chosen,
                   first, between>>
    /\ UNCHANGED <<op, upload_success>>
    /\ UNCHANGED run

\* The "Reset All" button.
ResetAll ==
    /\ pc = "idle"
    /\ ~chosen
    /\ op = "idle"
    /\ IF doc_loaded
       THEN /\ Cleared
            /\ doc_loaded' = FALSE
            /\ doc_info' = NoInfo
       ELSE UNCHANGED <<chat, doc_loaded, doc_info>>
    /\ UNCHANGED processor
    /\ UNCHANGED <<tesseract, det_image, det_result, target, current, chosen,
                   first, between>>
    /\ UNCHANGED <<op, upload_success>>
    /\ UNCHANGED run

AppNext ==
    \/ UploadRefused
    \/ Upload
    \/ CallOnDocument
    \/ NativeOnDocument
    \/ Accepted
    \/ FallbackOnDocument
    \/ PerPageOcr
    \/ Assembled
    \/ ImageOnDocument
    \/ BuildMetadata
    \/ LoadSucceeds
    \/ LoadFails
    \/ Release
    \/ UploadDone
    \/ ClearButton
    \/ ResetAll

AppSpec == ChatInit /\ [][AppNext]_vars

\* ------------------------------------------------------ workflow graph

\* The values of the enum QueryType.
QueryTypes ==
    {"clause_search", "compliance_check", "document_summary",
     "risk_assessment", "general_inquiry"}

\* What state["query_type"] can hold when route_query is called: a member
\* of the enum, None, a string outside the enum, or no such key.
QueryTypeInputs == QueryTypes \cup {"None", "other", "absent"}

\* state.get("query_type", QueryType.GENERAL_INQUIRY): the default is used
\* only when the key is missing; a stored None is returned as None.
StateGet(stored) == IF stored = "absent" THEN "general_inquiry" ELSE stored

\* routing_map of route_query
routing_map ==
    [qt \in QueryTypes |->
        CASE qt = "clause_search" -> "clause_extractor"
          [] qt = "compliance_check" -> "compliance_checker"
          [] qt = "document_summary" -> "summarizer"
          [] qt = "risk_assessment" -> "risk_assessor"
          [] qt = "general_inquiry" -> "general_assistant"]

\* A router that does not look at the document.
route_query_ungated(stored, content) ==
    LET qt == StateGet(stored)
    IN  IF qt \in DOMAIN routing_map THEN routing_map[qt]
        ELSE "general_assistant"

\* route_query(state): the routing_decision it returns, for the stored
\* query_type and document_content.
route_query(stored, content) ==
    LET qt == StateGet(stored)
        has_document == content.some
    IN  IF ~has_document /\ qt # "general_inquiry" THEN "document_request"
        ELSE IF qt \in DOMAIN routing_map THEN routing_map[qt]
        ELSE "general_assistant"

\* The mapping of add_conditional_edges("router", ...): decision -> node.
Edges ==
    [decision \in {"document_request", "clause_extractor", "compliance_checker",
                   "summarizer", "risk_assessor", "general_assistant"}
        |-> decision]

\* The document fields a query can find: no document, a document without
\* text, a document with text.
Contents == {NoContent, Content(<<>>), Content(<<"x">>)}

\* A query enters the graph at the classifier, or route_query is applied
\* to a state as it is.
GraphInit ==
    /\ Fresh("idle")
    /\ tesseract = TRUE
    /\ target = NoDoc
    /\ NoCaller
    /\ document_content \in Contents
    /\ document_metadata = [some |-> document_content.some, value |-> NoMetadata]
    /\ last_call = "none"
    /\ before = [content |-> NoContent, metadata |-> NoInfo]
    /\ job = NoDoc
    /\ op = "idle"
    /\ doc_loaded = FALSE
    /\ doc_info = NoInfo
    /\ upload_success = "none"
    /\ query_type \in QueryTypeInputs
    /\ routing_decision = "None"
    /\ node \in {"classifier", "router"}
    /\ trace = <<>>

\* What a step of the graph leaves alone.
GraphFrame ==
    /\ UNCHANGED processor
    /\ UNCHANGED <<tesseract, det_image, det_result, target, current, chosen,
                   first, between>>
    /\ UNCHANGED chat
    /\ UNCHANGED ui

\* classify_query: the structured output holds a member of QueryType.
ClassifyQuery ==
    /\ node = "classifier"
    /\ \E qt \in QueryTypes : query_type' = qt
    /\ node' = "router"
    /\ trace' = Append(trace, "classifier")
    /\ UNCHANGED routing_decision
    /\ GraphFrame

\* The router node: route_query(state)
RouteQuery ==
    /\ node = "router"
    /\ routing_decision' = route_query(query_type, document_content)
    /\ node' = "conditional_edge"
    /\ trace' = Append(trace, "router")
    /\ UNCHANGED query_type
    /\ GraphFrame

\* The conditional edge: the node mapped to state.get("routing_decision"),
\* and an error when the mapping has no such key.
ConditionalEdge ==
    /\ node = "conditional_edge"
    /\ node' = IF routing_decision \in DOMAIN Edges
               THEN Edges[routing_decision] ELSE "error"
    /\ UNCHANGED <<query_type, routing_decision, trace>>
    /\ GraphFrame

\* A handler node runs and the graph ends.
Handle ==
    /\ node \in DOMAIN Edges
    /\ trace' = Append(trace, node)
    /\ node' = "END"
    /\ UNCHANGED <<query_type, routing_decision>>
    /\ GraphFrame

GraphNext == ClassifyQuery \/ RouteQuery \/ ConditionalEdge \/ Handle

GraphSpec == GraphInit /\ [][GraphNext]_vars

\* ---------------------------------------------------------------- claims

\* The names of the capabilities invoked so far in the current call.
Called(fn) == \E k \in 1..Len(calls) : calls[k].fn = fn

\* The pages on which `fn` was invoked, in invocation order.
PagesOf(fn) ==
    LET hits == SelectSeq(calls, LAMBDA c : c.fn = fn)
    IN  [k \in 1..Len(hits) |-> hits[k].page]

\* The current call is a PDF in or past the OCR page loop.
OcrJob ==
    /\ pc \in {"page_loop", "metadata", "returned"}
    /\ Lower(path.suffix) = ".pdf"
    /\ ~native.success

\* Page k of the rasterized PDF raised during its processing.
PageFailed(k) == extract_text_from_image(images[k], k).raised

\* Number of non-whitespace characters embedded in the pages of a PDF.
RECURSIVE EmbeddedSolid(_)
EmbeddedSolid(pages) ==
    IF pages = <<>> THEN 0
    ELSE Cardinality(Solid(Head(pages))) + EmbeddedSolid(Tail(pages))

\* C1 (as claimed): a PDF whose embedded page text is non-empty but holds
\* at most 100 non-whitespace characters is never declared a native
\* success, so it goes on to the OCR fallback.
C1_ShortTextLayerRejected ==
    ( /\ pc = "native_done"
      /\ pdf_reader.readable
      /\ EmbeddedSolid(pdf_reader.pages) \in 1..NativeMinLength )
    => (~native.success /\ ENABLED OcrFallback)

\* C2: in a PDF job whose native extraction returned success, the job is
\* never raised, its result is the native text, and neither the
\* rasterizer, the orientation detectors nor the recognition engine is
\* invoked.
C2_NativeSuccessSkipsOcr ==
    (pc # "idle" /\ native.success) =>
        /\ pc \in {"native_done", "metadata", "returned"}
        /\ pc \in {"metadata", "returned"} => text = native.text
        /\ \A fn \in {"convert_from_path", "extract_text_from_image",
                      "image_to_osd", "_detect_rotation_fallback",
                      "rotate", "preprocess_image", "image_to_string"} :
               ~Called(fn)

C2_Witness ==
    /\ pc = "returned"
    /\ native.success
    /\ text # <<>>
    /\ Called("extract_text_from_native_pdf")

\* C3: in the OCR fallback the per-page step has run exactly once for each
\* page before the loop index, in ascending page order (so for each of
\* the N pages once the loop is over), and the recognition engine at most
\* once per page.
C3_OncePerPageInOrder ==
    OcrJob =>
        /\ PagesOf("extract_text_from_image") = [k \in 1..(i - 1) |-> k]
        /\ pc \in {"metadata", "returned"} => i - 1 = Len(images)
        /\ \A n \in 1..Len(images) :
               Cardinality({k \in 1..Len(calls) :
                   calls[k] = Call("image_to_string", n)}) <= 1

C3_Witness ==
    /\ OcrJob
    /\ pc = "returned"
    /\ Len(images) >= 2
    /\ PageFailed(1)
    /\ ~PageFailed(2)

\* Whether t occurs in s as a contiguous run of characters.
Occurs(t, s) ==
    \E off \in 0..(Len(s) - Len(t)) : SubSeq(s, off + 1, off + Len(t)) = t

\* "[ERROR: Could not process page k]"
ErrorMarker(k) == ErrorPrefix \o Str(k) \o <<"]">>

\* C4: a page failure in the OCR loop does not abort the job. A step taken
\* in the loop stays in the loop or leaves it assembled, without an
\* exception; a job that returns from the loop has processed every page
\* and carries the marker of each failed page; and a job in the loop
\* returns.
C4_PageFailureIsolated ==
    /\ [][pc = "page_loop" =>
            (pc' \in {"page_loop", "metadata"} /\ error' = NoError)]_vars
    /\ []((OcrJob /\ pc \in {"metadata", "returned"}) =>
            /\ error = NoError
            /\ \A k \in 1..Len(images) :
                   /\ Call("extract_text_from_image", k) \in
                          {calls[n] : n \in 1..Len(calls)}
                   /\ PageFailed(k) => Occurs(ErrorMarker(k), text))
    /\ ((pc = "page_loop") ~> (pc = "returned"))

C4_Witness ==
    /\ OcrJob
    /\ pc = "returned"
    /\ Len(images) >= 3
    /\ PageFailed(1)
    /\ PageFailed(2)
    /\ ~PageFailed(3)

\* The slot the claim gives page k in the text: for a processed page a
\* separator line, "PAGE k", a separator line, an empty line, the
\* recognized text and an empty line; for a failed page its error marker
\* between line breaks.
ClaimedSlot(k) ==
    IF PageFailed(k)
    THEN NL \o ErrorMarker(k) \o NL \o NL
    ELSE Separator \o NL \o PAGE \o Str(k) \o NL \o Separator \o NL \o NL
         \o images[k].ocr.text \o NL \o NL

\* The slots of pages 1..n, in page order.
RECURSIVE ClaimedText(_)
ClaimedText(n) == IF n = 0 THEN <<>> ELSE ClaimedText(n - 1) \o ClaimedSlot(n)

\* C5: the text of an OCR job is the slots of pages 1..N in ascending
\* order with no gap, one slot per page, whichever pages failed; while the
\* loop runs the pieces appended so far are the slots of the pages done.
C5_SlotsInPageOrder ==
    OcrJob =>
        /\ Concat(all_text) = ClaimedText(i - 1)
        /\ pc \in {"metadata", "returned"} => text = ClaimedText(Len(images))

C5_Witness ==
    /\ OcrJob
    /\ pc = "returned"
    /\ Len(images) = 3
    /\ ~PageFailed(1)
    /\ PageFailed(2)
    /\ ~PageFailed(3)
    /\ images[1] # images[3]

LimitBytes == MAX_DOCUMENT_SIZE_MB * 1024 * 1024

\* The current call has entered the extraction for its file type, or is
\* past it.
ExtractionEntered ==
    \/ pc \in {"extract_text_from_pdf", "extract_text_from_image_file",
               "native_done", "page_loop", "metadata", "returned"}
    \/ Called("extract_text_from_native_pdf")
    \/ Called("Image.open")

\* C7: an existing file of exactly the maximum size is not rejected for its
\* size, and extraction proceeds when its type is supported; an existing
\* file of any larger size, one byte over included, is rejected with the
\* size-limit error.
C7_SizeBoundary ==
    (pc # "idle" /\ path.exists) =>
        /\ path.size > LimitBytes => (pc = "raised" /\ error = SizeLimitExceeded)
        /\ path.size <= LimitBytes => error # SizeLimitExceeded
        /\ ( /\ path.size <= LimitBytes
             /\ Lower(path.suffix) \in ImageSuffixes \cup {".pdf"} )
           => ExtractionEntered

C7_Witness ==
    /\ pc = "returned"
    /\ path.exists
    /\ path.size = LimitBytes

\* Only the stat calls of the validation have been made.
OnlyStatCalls == \A k \in 1..Len(calls) : calls[k].fn \in {"exists", "stat"}

\* C8: a call on a missing or an oversized file is raised with NotFound,
\* respectively the size-limit error, whatever the suffix, with no
\* capability invoked beyond the stat calls and no text or metadata.
C8_FailFast ==
    (pc # "idle" /\ (~path.exists \/ path.size > LimitBytes)) =>
        /\ pc = "raised"
        /\ error = IF ~path.exists THEN NotFound ELSE SizeLimitExceeded
        /\ OnlyStatCalls
        /\ ~ExtractionEntered
        /\ text = <<>>
        /\ metadata = NoMetadata

C8_Witness ==
    /\ pc = "raised"
    /\ error = SizeLimitExceeded
    /\ path.suffix = ".pdf"
    /\ path.size = LimitBytes + 1

\* ['.pdf', '.png', '.jpg', '.jpeg', '.tiff', '.bmp']
SupportedSuffixes == {".pdf", ".png", ".jpg", ".jpeg", ".tiff", ".bmp"}

\* C9 (as claimed): a call on any path whose suffix is outside the
\* supported set is raised with the unsupported-format error, with no I/O
\* beyond stat.
C9_UnsupportedAlways ==
    (pc # "idle" /\ Lower(path.suffix) \notin SupportedSuffixes) =>
        /\ pc = "raised"
        /\ error = UnsupportedFormat
        /\ OnlyStatCalls

\* C9 (amended): a call on a path whose suffix is outside the supported set
\* is raised with no I/O beyond the stat calls of the validation; the error
\* is NotFound for a missing file, the size-limit error for an oversized
\* one, and the unsupported-format error for every other file.
C9_UnsupportedAfterValidation ==
    (pc # "idle" /\ Lower(path.suffix) \notin SupportedSuffixes) =>
        /\ pc = "raised"
        /\ OnlyStatCalls
        /\ error = IF ~path.exists THEN NotFound
                   ELSE IF path.size > LimitBytes THEN SizeLimitExceeded
                   ELSE UnsupportedFormat

C9_Witness ==
    /\ pc = "raised"
    /\ path.suffix = ".docx"
    /\ path.exists
    /\ error = UnsupportedFormat
    /\ calls = <<Call("exists", 0), Call("stat", 0)>>

\* Number of whitespace-separated tokens of t, counted at the tokens'
\* last characters.
Tokens(t) ==
    Cardinality({k \in 1..Len(t) :
        ~IsSpace(t[k]) /\ (k = Len(t) \/ IsSpace(t[k + 1]))})

\* C10: of a returned result, on the native and on the OCR path and for an
\* image file, char_count is the length of the returned text and
\* word_count the number of its whitespace-separated tokens.
C10_CountsOfReturnedText ==
    pc = "returned" =>
        /\ metadata.char_count = Len(text)
        /\ metadata.word_count = Tokens(text)

C10_Witness ==
    /\ pc = "returned"
    /\ OcrJob
    /\ Len(images) >= 2
    /\ PageFailed(1)
    /\ metadata.word_count > 2
    /\ metadata.char_count > metadata.word_count

\* C11 (as claimed): of a returned result, dpi_used carries a resolution
\* exactly when the rasterizer ran in the job; for a PDF accepted on the
\* native path and for an image file it is 'N/A'.
C11_DpiOnlyWhenRasterized ==
    pc = "returned" =>
        (metadata.dpi_used.kind = "int" <=> Called("convert_from_path"))

\* How often detect_rotation ran the capability fn on det_image.
DetCount(fn) ==
    Cardinality({k \in DOMAIN det_result.calls : det_result.calls[k].fn = fn})

OsdSucceeded == det_image.osd.status = "parsed"

\* C12: detect_rotation never raises. When the OSD output parses, its
\* value is returned and the fallback is not run; when OSD throws or its
\* output does not parse, OSD was tried first and the fallback ran exactly
\* once; when the fallback throws as well, the result is 0.
C12_TwoStrategyChain ==
    det_result.done =>
        /\ ~det_result.raised
        /\ DetCount("image_to_osd") = 1
        /\ det_result.calls[1].fn = "image_to_osd"
        /\ OsdSucceeded =>
              /\ det_result.rotation = det_image.osd.rotate
              /\ DetCount("_detect_rotation_fallback") = 0
        /\ ~OsdSucceeded =>
              /\ DetCount("_detect_rotation_fallback") = 1
              /\ det_image.hough.status = "raise" => det_result.rotation = 0

\* OSD and the fallback have both thrown.
C12_Witness ==
    /\ det_result.done
    /\ det_image.osd.status = "raise"
    /\ det_image.hough.status = "raise"
    /\ det_result.rotation = 0

\* The number of angles of a that are smaller than v / at most v.
Below(a, v) == Cardinality({k \in DOMAIN a : a[k] < v})
UpTo(a, v) == Cardinality({k \in DOMAIN a : a[k] <= v})

\* The k-th smallest angle of a, by counting.
Kth(a, k) ==
    CHOOSE v \in {a[j] : j \in DOMAIN a} : Below(a, v) < k /\ k <= UpTo(a, v)

\* Twice the median angle of the at most 50 first lines of a.
TwiceTheta(a) ==
    LET n == Min({Len(a), TopLines})
        top == [k \in 1..n |-> a[k]]
    IN  IF n % 2 = 1 THEN 2 * Kth(top, (n + 1) \div 2)
        ELSE Kth(top, n \div 2) + Kth(top, (n \div 2) + 1)

\* The stated mapping of the median angle theta, on t2 = 2 * theta.
StatedRotation(t2) ==
    IF 90 <= t2 /\ t2 < 270 THEN 90
    ELSE IF (270 <= t2 /\ t2 < 360) \/ (0 <= t2 /\ t2 < 90) THEN 0
    ELSE 270

\* C13: when OSD fails, detect_rotation returns the fallback's value: 0
\* when no lines are detected, else the stated mapping of the median
\* angle of the at most 50 strongest lines; a single line at 92 degrees
\* gives 90.
C13_FallbackMapping ==
    (det_result.done /\ ~OsdSucceeded) =>
        /\ det_image.hough.status = "none" => det_result.rotation = 0
        /\ det_image.hough.status = "lines" =>
              det_result.rotation = StatedRotation(TwiceTheta(det_image.hough.angles))
        /\ det_image.hough = Lines(<<92>>) => det_result.rotation = 90

\* More than 50 lines were detected, and the median of the first 50 decides.
C13_Witness ==
    /\ det_result.done
    /\ ~OsdSucceeded
    /\ det_image.hough.status = "lines"
    /\ Len(det_image.hough.angles) > TopLines
    /\ det_result.rotation = 0

\* C14: the rotation detect_rotation returns is one of 0, 90, 180, 270,
\* whatever integer the OSD output holds.
C14_CanonicalRotation ==
    det_result.done => det_result.rotation \in {0, 90, 180, 270}

\* C15: when convert_from_path fails, process_document raises "PDF
\* conversion failed": no page is OCR-processed and neither text nor
\* metadata is returned.
C15_ConversionFailureFatal ==
    conversion = "raised" =>
        /\ pc = "raised"
        /\ error = ConversionError
        /\ ~Called("extract_text_from_image")
        /\ ~Called("image_to_string")
        /\ text = <<>>
        /\ metadata = NoMetadata

\* The conversion failed after the native attempt had been made.
C15_Witness ==
    /\ conversion = "raised"
    /\ pc = "raised"
    /\ calls[Len(calls)].fn = "convert_from_path"
    /\ Called("extract_text_from_native_pdf")

\* How often the capability fn was invoked in the current call.
CountOf(fn) == Cardinality({k \in DOMAIN calls : calls[k].fn = fn})

\* Every invocation of f comes before every invocation of g.
Before(f, g) ==
    \A a, b \in DOMAIN calls : (calls[a].fn = f /\ calls[b].fn = g) => a < b

ImageJob == Lower(path.suffix) \in ImageSuffixes

\* C16: for an image file the native extractor and the rasterizer are never
\* invoked and the PDF states are never entered; the image is processed at
\* most once, and a returned job has run orientation detection,
\* preprocessing and recognition exactly once each, in that order.
C16_ImageSkipsPdfPath ==
    ImageJob =>
        /\ pc \notin {"extract_text_from_pdf", "native_done", "page_loop"}
        /\ ~Called("extract_text_from_native_pdf")
        /\ ~Called("convert_from_path")
        /\ CountOf("extract_text_from_image") <= 1
        /\ pc \in {"metadata", "returned"} =>
              /\ CountOf("extract_text_from_image") = 1
              /\ CountOf("image_to_osd") = 1
              /\ CountOf("preprocess_image") = 1
              /\ CountOf("image_to_string") = 1
              /\ Before("image_to_osd", "preprocess_image")
              /\ Before("preprocess_image", "image_to_string")
              /\ text = image.image.ocr.text

\* A rotated image file was corrected, recognized and returned.
C16_Witness ==
    /\ ImageJob
    /\ pc = "returned"
    /\ Called("rotate")
    /\ Len(text) > 0

\* C17: a later call of process_document on the document of an earlier
\* call, whatever was processed in between, hands back the text, the
\* metadata or the exception of the earlier call.
C17_Idempotent ==
    (first.done /\ chosen /\ current = target /\ pc \in {"returned", "raised"}) =>
        Outcome = first.outcome

\* A scanned PDF has been processed again after another document.
C17_Witness ==
    /\ first.done
    /\ between
    /\ chosen
    /\ current = target
    /\ pc = "returned"
    /\ Called("image_to_string")
    /\ Called("convert_from_path")

\* C18: the constructor does not raise when Tesseract cannot be reached,
\* and the processor then still takes a PDF with a sufficient native text
\* layer to a returned result, without a call of the engine.
C18_ConstructionTolerant ==
    ~tesseract =>
        /\ pc # "construct_raised"
        /\ native.success =>
              /\ pc \in {"native_done", "metadata", "returned"}
              /\ error = NoError
              /\ ~Called("image_to_osd")
              /\ ~Called("image_to_string")
              /\ pc # "native_done" => text = native.text
              /\ pc = "returned" => metadata = Metadata(path, native.text, dpi)

\* Without Tesseract, a PDF with a real text layer has been returned.
C18_Witness ==
    /\ ~tesseract
    /\ pc = "returned"
    /\ native.success
    /\ Len(Strip(text)) > NativeMinLength

\* The image the capability invocation c worked on.
ImageOfCall(c) ==
    IF Lower(path.suffix) = ".pdf" THEN images[c.page] ELSE image.image

\* The rotation to expect for an image: the value OSD reports, else the
\* stated mapping of the median line angle, else 0.
ExpectedRotation(im) ==
    IF im.osd.status = "parsed" THEN im.osd.rotate
    ELSE IF im.hough.status = "lines"
    THEN StatedRotation(TwiceTheta(im.hough.angles))
    ELSE 0

\* The orientation detection of a page ends with invocation k.
DetEnd(k) ==
    \/ calls[k].fn = "_detect_rotation_fallback"
    \/ /\ calls[k].fn = "image_to_osd"
       /\ k = Len(calls) \/ calls[k + 1].fn # "_detect_rotation_fallback"

\* C19: on every OCR page the orientation is detected first; the image is
\* rotated next iff the detected rotation is not 0, by minus that angle
\* with expand; preprocessing follows; the engine is invoked only right
\* after the preprocessing of the page.
C19_StepOrder ==
    \A k \in DOMAIN calls :
        LET c == calls[k]
            rot == ExpectedRotation(ImageOfCall(c))
        IN  /\ c.fn = "image_to_osd" =>
                  k > 1 /\ calls[k - 1] = Call("extract_text_from_image", c.page)
            /\ c.fn = "_detect_rotation_fallback" =>
                  calls[k - 1] = Call("image_to_osd", c.page)
            /\ (c.fn \in {"image_to_osd", "_detect_rotation_fallback"} /\ DetEnd(k)) =>
                  /\ k < Len(calls)
                  /\ calls[k + 1] = IF rot # 0 THEN RotateCall(c.page, rot)
                                    ELSE Call("preprocess_image", c.page)
            /\ c.fn = "rotate" =>
                  /\ DetEnd(k - 1)
                  /\ calls[k - 1].page = c.page
                  /\ rot # 0
                  /\ c = RotateCall(c.page, rot)
                  /\ k < Len(calls) =>
                        calls[k + 1] \in {Call("preprocess_image", c.page),
                                          Call("extract_text_from_image", c.page + 1)}
            /\ c.fn = "preprocess_image" =>
                  /\ calls[k - 1].page = c.page
                  /\ calls[k - 1].fn = "rotate" \/ DetEnd(k - 1)
            /\ c.fn = "image_to_string" =>
                  calls[k - 1] = Call("preprocess_image", c.page)

\* An upright page went from detection to preprocessing, the next page
\* was turned back by 90 degrees, preprocessed and recognized.
C19_Witness ==
    /\ pc = "returned"
    /\ \E j, k \in DOMAIN calls :
        /\ calls[j] = Call("image_to_osd", 1)
        /\ calls[j + 1] = Call("preprocess_image", 1)
        /\ calls[k] = RotateCall(2, 90)
        /\ calls[k + 1] = Call("preprocess_image", 2)
        /\ calls[k + 2] = Call("image_to_string", 2)

\* The current file passed validation and is a PDF.
ValidPdf == Validate(path) = NoError /\ Lower(path.suffix) = ".pdf"

\* C20: when PyPDF2 raises, extract_text_from_native_pdf returns the empty
\* text with success false, what it returns for a PDF without text, and
\* the OCR fallback is the step that follows; a valid PDF makes
\* process_document raise only through the failed conversion.
C20_NativeFailureNotFatal ==
    /\ (pc = "native_done" /\ ~pdf_reader.readable) =>
          /\ native = [text |-> <<>>, success |-> FALSE]
          /\ native = extract_text_from_native_pdf([readable |-> TRUE,
                                                    pages |-> << <<>> >>])
          /\ ENABLED OcrFallback
          /\ ~ENABLED Accepted
    /\ (pc = "raised" /\ ValidPdf) =>
          /\ error = ConversionError
          /\ conversion = "raised"
          /\ calls[Len(calls)].fn = "convert_from_path"

\* PyPDF2 raised on a valid PDF and the native attempt has returned.
C20_Witness ==
    /\ pc = "native_done"
    /\ ValidPdf
    /\ ~pdf_reader.readable
    /\ native = NoNative

\* The positions of s at which the token "PAGE " starts.
PagePositions(s) ==
    {k \in 1..(Len(s) - Len(PAGE)) : SubSeq(s, k, k + Len(PAGE) - 1) = PAGE}

\* The number a one-digit banner at position k of s carries.
NumberAt(s, k) ==
    (CHOOSE d \in 1..Len(DigitChars) : DigitChars[d] = s[k + Len(PAGE)]) - 1

\* The token at position k of s stands in a banner for `body`: a separator
\* line before it, the number and a separator line after it, a blank line,
\* then body.
BannerAt(s, k, body) ==
    LET from == k - SeparatorWidth - 1
        banner == Separator \o NL \o PAGE \o Str(NumberAt(s, k)) \o NL
                      \o Separator \o NL \o NL \o body
    IN  /\ from >= 1
        /\ from + Len(banner) - 1 <= Len(s)
        /\ SubSeq(s, from, from + Len(banner) - 1) = banner

\* The 1-based indexes of the pages that have embedded text.
TextPages(pages) == {k \in 1..Len(pages) : Strip(pages[k]) # <<>>}

\* C21: in the text of a native success the banners are those of the pages
\* with embedded text, each with the 1-based index of its page in the PDF
\* and followed by that page's text, in increasing order; a page without
\* text has no banner.
C21_BannersKeepPageIndex ==
    (pc = "native_done" /\ native.success) =>
        LET t == native.text
            at == PagePositions(t)
        IN  /\ {NumberAt(t, k) : k \in at} = TextPages(pdf_reader.pages)
            /\ Cardinality(at) = Cardinality(TextPages(pdf_reader.pages))
            /\ \A k \in at : BannerAt(t, k, pdf_reader.pages[NumberAt(t, k)])
            /\ \A j, k \in at : j < k => NumberAt(t, j) < NumberAt(t, k)

\* Page 2 of three has no text: the banners are numbered 1 and 3.
C21_Witness ==
    /\ pc = "native_done"
    /\ native.success
    /\ Len(pdf_reader.pages) = 3
    /\ TextPages(pdf_reader.pages) = {1, 3}
    /\ {NumberAt(native.text, k) : k \in PagePositions(native.text)} = {1, 3}

\* C22: the two document fields are both None or both set, and when set
\* they are the text and the metadata of one job; after a failed
\* load_document, which returns its message, they are what they were when
\* it was called; after a successful one they are that job's text and
\* metadata; after clear_document they are None.
C22_DocumentFieldsFrame ==
    /\ document_content.some <=> document_metadata.some
    /\ document_content.some =>
          document_metadata.value = Metadata(job.path, document_content.text, dpi)
    /\ last_call = "load_error" =>
          /\ document_content = before.content
          /\ document_metadata = before.metadata
    /\ last_call = "load_ok" =>
          /\ document_content.some
          /\ (pc = "returned" /\ ~chosen) =>
                /\ document_content = Content(text)
                /\ document_metadata = Info(metadata)
    /\ last_call = "clear" => document_content = NoContent
    /\ (chosen /\ pc = "raised") => ENABLED LoadFails

\* A load failed while another document was loaded, which stays loaded.
C22_Witness ==
    /\ last_call = "load_error"
    /\ pc = "raised"
    /\ document_content.some
    /\ Len(document_content.text) > 0
    /\ job # current

\* C23: doc_loaded is true only if the chatbot holds a document; an upload
\* reports success only when its load_document succeeded, and doc_info is
\* then the metadata of the uploaded file.
C23_DocLoadedOnlyAfterSuccess ==
    /\ doc_loaded => document_content.some
    /\ (op = "idle" /\ upload_success = "true" /\ last_call # "clear") =>
          /\ last_call = "load_ok"
          /\ doc_info = Info(Metadata(current.path, document_content.text, dpi))

HandlerNodes ==
    {"document_request", "clause_extractor", "compliance_checker",
     "summarizer", "risk_assessor", "general_assistant"}

Specialists ==
    {"clause_extractor", "compliance_checker", "summarizer", "risk_assessor"}

\* The router has run in the current query.
Routed == \E k \in DOMAIN trace : trace[k] = "router"

\* C24: whatever query_type holds and whether or not a document is
\* loaded, the router's decision is one of the six handler nodes, the
\* conditional edge finds it, and a finished query has run the classifier
\* (when entered there), the router and exactly that handler; a specialist
\* is chosen only with a document, and without one every query_type but
\* general_inquiry is sent to document_request.
C24_RoutingTotalAndGated ==
    /\ node # "error"
    /\ Routed =>
          /\ routing_decision \in HandlerNodes
          /\ routing_decision \in Specialists => document_content.some
          /\ (~document_content.some /\ query_type \in QueryTypeInputs \ {"general_inquiry", "absent"})
                => routing_decision = "document_request"
    /\ node = "END" =>
          trace \in {<<"classifier", "router", routing_decision>>,
                     <<"router", routing_decision>>}

\* Without a document, a None query_type was sent to document_request and
\* the query has ended.
C24_Witness ==
    /\ node = "END"
    /\ query_type = "None"
    /\ ~document_content.some
    /\ trace = <<"router", "document_request">>

====
